---------------------------- MODULE Spec2Model ----------------------------
(*************************************************************************)
(* Model of script.py (FTD configuration to spreadsheet): the four line  *)
(* recognizers parse_interfaces, parse_routes, parse_object_nat and      *)
(* parse_acls / parse_acl_line, run by main over one list of lines.      *)
(*                                                                       *)
(* Lines are strings, as in the program.  strip, split, startswith, the  *)
(* "in" test and the two regular expressions are computed character by   *)
(* character.  Indexes into token lists are 0-based as in the source     *)
(* (Tok(tokens, k) is tokens[k]).  A Python dict is a function whose     *)
(* domain is its set of keys, the empty dict is the empty function, and  *)
(* None is the empty tuple where a string may stand (Some(s) is <<s>>).  *)
(* An uncaught IndexError ends the recognizer, and with it the program:  *)
(* pc[pass] = "raised".  A list holds references: current_at is the set  *)
(* of positions of interfaces that hold the very dict current refers to, *)
(* and a write to that dict shows at each of them.                       *)
(*************************************************************************)
EXTENDS Integers, Sequences, FiniteSets, TLC

VARIABLES
    config_lines,    \* main: the list returned by load_config (never written)
    pc,              \* pc[pass]: "loop", "done", "raised"; parse_acls also
                     \* stands inside parse_acl_line ("required" .. "rule_id")
    i,               \* i[pass]: number of lines the pass's for loop has taken
    interfaces,      \* parse_interfaces: interfaces
    current,         \* parse_interfaces: current
    current_at,      \* parse_interfaces: {k : interfaces[k] is current}
    route_entries,   \* parse_routes: route_entries
    nat_entries,     \* parse_object_nat: nat_entries
    current_object,  \* parse_object_nat: current_object
    parsed,          \* parse_acls: parsed
    tokens,          \* parse_acl_line: tokens
    idx,             \* parse_acl_line: idx
    result,          \* parse_acl_line: result
    returned         \* returned[pass]: how each finished call of the pass ended

vars == <<config_lines, pc, i, interfaces, current, current_at, route_entries,
          nat_entries, current_object, parsed, tokens, idx, result, returned>>

\* Longest input (number of lines) the model reads.
MaxLines == 3

\* Longest input read where only parse_acls runs (it keeps nothing from one
\* line to the next, and takes up to nine steps for a line).
MaxAclLines == 2

\* Longest input read where one recognizer is called, and then called again.
MaxCallLines == 4

\* Longest input read where the four recognizers run side by side.
MaxParallelLines == 2

Passes == {"parse_interfaces", "parse_routes", "parse_object_nat", "parse_acls"}

-----------------------------------------------------------------------------
(* Python's str and list operations used by the recognizers.               *)

None == <<>>
Some(s) == <<s>>

\* str.strip() and str.split() treat these as whitespace; \S is the rest.
IsSpace(c) == c \in {" ", "\t", "\n", "\r"}

IsDigit(c) == c \in {"0", "1", "2", "3", "4", "5", "6", "7", "8", "9"}

\* s[k-1:k] : the k-th character (1-based), "" past the end.
Char(s, k) == IF k >= 1 /\ k <= Len(s) THEN SubSeq(s, k, k) ELSE ""

\* the positions of s that hold a non-whitespace character
Inked(s) == {k \in 1..Len(s) : ~IsSpace(Char(s, k))}

SetMin(S) == CHOOSE x \in S : \A y \in S : x <= y
SetMax(S) == CHOOSE x \in S : \A y \in S : y <= x

\* str.strip()
strip(s) ==
    LET ink == Inked(s)
    IN  IF ink = {} THEN "" ELSE SubSeq(s, SetMin(ink), SetMax(ink))

\* the length of the longest run of characters satisfying \S from position k
NonSpaceRun(s, k) ==
    SetMin({m \in k..(Len(s) + 1) : m > Len(s) \/ IsSpace(Char(s, m))} \cup {Len(s) + 1}) - k

\* str.split() with no separator: the maximal runs of non-whitespace, in order
RECURSIVE WordsAt(_, _)
WordsAt(s, starts) ==
    IF starts = {} THEN <<>>
    ELSE LET k == SetMin(starts)
         IN  <<SubSeq(s, k, k + NonSpaceRun(s, k) - 1)>> \o WordsAt(s, starts \ {k})

split(s) ==
    WordsAt(s, {k \in Inked(s) : k = 1 \/ IsSpace(Char(s, k - 1))})

startswith(s, p) == Len(s) >= Len(p) /\ SubSeq(s, 1, Len(p)) = p

\* p in s
Contains(s, p) ==
    \E k \in 1..(Len(s) - Len(p) + 1) : SubSeq(s, k, k + Len(p) - 1) = p

\* s.find(p) + 1, 0 when p does not occur
Find(s, p) ==
    LET at == {k \in 1..(Len(s) - Len(p) + 1) : SubSeq(s, k, k + Len(p) - 1) = p}
    IN  IF at = {} THEN 0 ELSE CHOOSE k \in at : \A m \in at : k <= m

\* tokens[k], 0-based; only used where HasTok(tokens, k)
Tok(toks, k) == toks[k + 1]
HasTok(toks, k) == k >= 0 /\ k < Len(toks)

\* d[k] = v on a dict
SetKey(d, k, v) == [x \in (DOMAIN d) \cup {k} |-> IF x = k THEN v ELSE d[x]]

EmptyDict == [x \in {} |-> ""]

\* the length of the longest run of characters satisfying \d from position k
DigitRun(s, k) ==
    SetMin({m \in k..(Len(s) + 1) : m > Len(s) \/ ~IsDigit(Char(s, m))} \cup {Len(s) + 1}) - k

-----------------------------------------------------------------------------
(* parse_interfaces                                                        *)

NewInterface(name) ==
    [k \in {"Interface", "Name", "Security Level", "IP Address",
            "Subnet Mask", "Standby IP", "VLAN"} |->
        IF k = "Interface" THEN name ELSE ""]

\* How a call ends: the list it returns, or the IndexError that leaves it.
Returns(value) == [raised |-> FALSE, value |-> value]
Raises == [raised |-> TRUE, value |-> <<>>]

\* The list after a write to the dict current refers to: the positions that
\* hold that dict show it as written.
Store(ifs, at, cur) == [k \in 1..Len(ifs) |-> IF k \in at THEN cur ELSE ifs[k]]

\* "if current: interfaces.append(current)", the dropped variant and the
\* variant that inserts at the front first
Finalize_Drop(ifs, cur) == ifs

Finalize_Front(ifs, cur) == IF DOMAIN cur # {} THEN <<cur>> \o ifs ELSE ifs

Finalize(ifs, cur) == IF DOMAIN cur # {} THEN Append(ifs, cur) ELSE ifs

\* "interfaces.append(current); current = {}" at a terminator; in the variant
\* without the second statement current still is the dict just appended
CloseBlock_NoReset(ifs, cur) ==
    [interfaces |-> Append(ifs, cur), current |-> cur, current_at |-> {Len(ifs) + 1}]

CloseBlock(ifs, cur) ==
    [interfaces |-> Append(ifs, cur), current |-> EmptyDict, current_at |-> {}]

\* The body of the for loop for one line: the new interfaces, current and
\* current_at, or raised when an index is out of range (nothing catches it;
\* the writes made before it stay).
InterfaceLine(raw, ifs, cur, at) ==
    LET line == strip(raw)
        parts == split(line)
        keep == [interfaces |-> ifs, current |-> cur, current_at |-> at,
                 raised |-> FALSE]
        fault == [keep EXCEPT !.raised = TRUE]
        Write(s, key, value) ==
            LET c == SetKey(s.current, key, value)
            IN  [s EXCEPT !.current = c, !.interfaces = Store(s.interfaces, at, c)]
    IN  IF startswith(line, "interface ")
        THEN [keep EXCEPT
                !.interfaces = Finalize(ifs, cur),
                !.current = NewInterface(Tok(parts, 1)),
                !.current_at = {}]
        ELSE IF startswith(line, "nameif")
        THEN IF HasTok(parts, 1)
             THEN Write(keep, "Name", Tok(parts, 1))
             ELSE fault
        ELSE IF startswith(line, "security-level")
        THEN IF HasTok(parts, 1)
             THEN Write(keep, "Security Level", Tok(parts, 1))
             ELSE fault
        ELSE IF startswith(line, "ip address")
        THEN IF ~HasTok(parts, 2) THEN fault
             ELSE LET a == Write(keep, "IP Address", Tok(parts, 2))
                  IN  IF ~HasTok(parts, 3) THEN [a EXCEPT !.raised = TRUE]
                      ELSE LET b == Write(a, "Subnet Mask", Tok(parts, 3))
                           IN  IF Contains(line, "standby")
                               THEN Write(b, "Standby IP", parts[Len(parts)])
                               ELSE b
        ELSE IF startswith(line, "vlan")
        THEN IF HasTok(parts, 1)
             THEN Write(keep, "VLAN", Tok(parts, 1))
             ELSE fault
        ELSE IF line = "!" /\ DOMAIN cur # {}
        THEN [keep EXCEPT
                !.interfaces = CloseBlock(ifs, cur).interfaces,
                !.current = CloseBlock(ifs, cur).current,
                !.current_at = CloseBlock(ifs, cur).current_at]
        ELSE keep

\* one iteration of "for line in config_lines"
InterfacesStep ==
    /\ pc["parse_interfaces"] = "loop"
    /\ i["parse_interfaces"] < Len(config_lines)
    /\ LET r == InterfaceLine(config_lines[i["parse_interfaces"] + 1],
                              interfaces, current, current_at)
       IN  /\ interfaces' = r.interfaces
           /\ current' = r.current
           /\ current_at' = r.current_at
           /\ pc' = [pc EXCEPT !["parse_interfaces"] =
                        IF r.raised THEN "raised" ELSE "loop"]
           /\ returned' = IF r.raised
                          THEN [returned EXCEPT !["parse_interfaces"] = Append(@, Raises)]
                          ELSE returned
    /\ i' = [i EXCEPT !["parse_interfaces"] = @ + 1]
    /\ UNCHANGED <<config_lines, route_entries, nat_entries, current_object,
                   parsed, tokens, idx, result>>

\* after the loop: "if current: interfaces.append(current)", then return
InterfacesReturn ==
    /\ pc["parse_interfaces"] = "loop"
    /\ i["parse_interfaces"] = Len(config_lines)
    /\ interfaces' = Finalize(interfaces, current)
    /\ current_at' = IF Len(interfaces') > Len(interfaces)
                     THEN current_at \cup {Len(interfaces')} ELSE current_at
    /\ pc' = [pc EXCEPT !["parse_interfaces"] = "done"]
    /\ returned' = [returned EXCEPT !["parse_interfaces"] = Append(@, Returns(interfaces'))]
    /\ UNCHANGED <<config_lines, i, current, route_entries, nat_entries,
                   current_object, parsed, tokens, idx, result>>

\* parse_interfaces called once more: "interfaces = []", "current = {}" make
\* new objects whatever the call before left; the stale variant keeps the dict
EntryCurrent_Stale(left) == left

EntryCurrent(left) == EmptyDict

CallInterfaces ==
    /\ pc["parse_interfaces"] \in {"done", "raised"}
    /\ Len(returned["parse_interfaces"]) < 2
    /\ interfaces' = <<>>
    /\ current' = EntryCurrent(current)
    /\ current_at' = {}
    /\ i' = [i EXCEPT !["parse_interfaces"] = 0]
    /\ pc' = [pc EXCEPT !["parse_interfaces"] = "loop"]
    /\ UNCHANGED <<config_lines, route_entries, nat_entries, current_object,
                   parsed, tokens, idx, result, returned>>

-----------------------------------------------------------------------------
(* parse_routes                                                            *)

\* route_pattern.match(s) for r'^route (\S+) (\S+) (\S+) (\S+)(?: (\d+))?':
\* None, or Some of the groups (group 5 is itself None when the optional part
\* did not take part in the match).  Each \S+ is greedy and must be followed
\* by one space character, so it is the maximal run of non-whitespace.
route_pattern_match(s) ==
    IF ~startswith(s, "route ") THEN None
    ELSE LET p1 == 7
             n1 == NonSpaceRun(s, p1)
             p2 == p1 + n1 + 1
             n2 == NonSpaceRun(s, p2)
             p3 == p2 + n2 + 1
             n3 == NonSpaceRun(s, p3)
             p4 == p3 + n3 + 1
             n4 == NonSpaceRun(s, p4)
             p5 == p4 + n4 + 1
             n5 == DigitRun(s, p5)
         IN  IF /\ n1 > 0 /\ Char(s, p1 + n1) = " "
                /\ n2 > 0 /\ Char(s, p2 + n2) = " "
                /\ n3 > 0 /\ Char(s, p3 + n3) = " "
                /\ n4 > 0
             THEN Some([g1 |-> SubSeq(s, p1, p1 + n1 - 1),
                        g2 |-> SubSeq(s, p2, p2 + n2 - 1),
                        g3 |-> SubSeq(s, p3, p3 + n3 - 1),
                        g4 |-> SubSeq(s, p4, p4 + n4 - 1),
                        g5 |-> IF Char(s, p4 + n4) = " " /\ n5 > 0
                               THEN Some(SubSeq(s, p5, p5 + n5 - 1))
                               ELSE None])
             ELSE None

\* match.group(5) if match.group(5) else ""
Metric_Zero(g5) == IF g5 # None THEN g5[1] ELSE "0"

Metric(g5) == IF g5 # None THEN g5[1] ELSE ""

\* The body of the for loop for one line: the new route_entries.
RouteLine(raw, entries) ==
    LET match == route_pattern_match(strip(raw))
    IN  IF match # None
        THEN Append(entries,
                    [interface |-> match[1].g1,
                     destination |-> match[1].g2,
                     netmask |-> match[1].g3,
                     gateway |-> match[1].g4,
                     metric |-> Metric(match[1].g5)])
        ELSE entries

RoutesStep ==
    /\ pc["parse_routes"] = "loop"
    /\ i["parse_routes"] < Len(config_lines)
    /\ route_entries' = RouteLine(config_lines[i["parse_routes"] + 1], route_entries)
    /\ i' = [i EXCEPT !["parse_routes"] = @ + 1]
    /\ UNCHANGED <<config_lines, pc, interfaces, current, current_at, nat_entries,
                   current_object, parsed, tokens, idx, result, returned>>

RoutesReturn ==
    /\ pc["parse_routes"] = "loop"
    /\ i["parse_routes"] = Len(config_lines)
    /\ pc' = [pc EXCEPT !["parse_routes"] = "done"]
    /\ returned' = [returned EXCEPT !["parse_routes"] = Append(@, Returns(route_entries))]
    /\ UNCHANGED <<config_lines, i, interfaces, current, current_at, route_entries,
                   nat_entries, current_object, parsed, tokens, idx, result>>

\* parse_routes called once more: "route_entries = []"
CallRoutes ==
    /\ pc["parse_routes"] = "done"
    /\ Len(returned["parse_routes"]) < 2
    /\ route_entries' = <<>>
    /\ i' = [i EXCEPT !["parse_routes"] = 0]
    /\ pc' = [pc EXCEPT !["parse_routes"] = "loop"]
    /\ UNCHANGED <<config_lines, interfaces, current, current_at, nat_entries,
                   current_object, parsed, tokens, idx, result, returned>>

-----------------------------------------------------------------------------
(* parse_object_nat                                                        *)

\* "if current_object": neither None nor the empty string
Truthy(o) == o # None /\ o[1] # ""

\* line.split("object network")[1].strip(), for a line that starts with the
\* separator: the text between its first and its next occurrence.
ObjectName(line) ==
    LET rest == SubSeq(line, Len("object network") + 1, Len(line))
        k == Find(rest, "object network")
    IN  strip(IF k = 0 THEN rest ELSE SubSeq(rest, 1, k - 1))

\* re.match(r'nat \((\S+),(\S+)\) static (\S+)', line): None or Some of the
\* groups.  The closing parenthesis is followed by a space, so it ends the
\* run of non-whitespace that follows "nat ("; group 1 is greedy, so the
\* comma is the last one that leaves group 2 non-empty.
nat_static_match(line) ==
    IF ~startswith(line, "nat (") THEN None
    ELSE LET n == NonSpaceRun(line, 6)
             body == SubSeq(line, 6, 6 + n - 2)
             commas == {c \in 2..(Len(body) - 1) : Char(body, c) = ","}
             c == CHOOSE x \in commas : \A y \in commas : y <= x
             p3 == 6 + n + 8
             n3 == NonSpaceRun(line, p3)
         IN  IF /\ n >= 4
                /\ Char(line, 6 + n - 1) = ")"
                /\ commas # {}
                /\ SubSeq(line, 6 + n, 6 + n + 7) = " static "
                /\ n3 > 0
             THEN Some([g1 |-> SubSeq(body, 1, c - 1),
                        g2 |-> SubSeq(body, c + 1, Len(body)),
                        g3 |-> SubSeq(line, p3, p3 + n3 - 1)])
             ELSE None

\* "current_object = None  # reset after use"
AfterUse_Keep(cur_obj) == cur_obj

AfterUse(cur_obj) == None

\* the dict appended for a matching line
NatRecord_Swapped(name, groups, line) ==
    [object_name |-> name,
     source_interface |-> groups.g2,
     destination_interface |-> groups.g1,
     nat_type |-> "static",
     translated_object |-> groups.g3,
     raw |-> line]

NatRecord(name, groups, line) ==
    [object_name |-> name,
     source_interface |-> groups.g1,
     destination_interface |-> groups.g2,
     nat_type |-> "static",
     translated_object |-> groups.g3,
     raw |-> line]

\* The body of the for loop for one line: the new nat_entries and
\* current_object; the variant that resets the name inside "if match" first
NatLine_ResetOnMatch(raw, entries, cur_obj) ==
    LET line == strip(raw)
        match == nat_static_match(line)
    IN  IF startswith(line, "object network")
        THEN [nat_entries |-> entries, current_object |-> Some(ObjectName(line))]
        ELSE IF startswith(line, "nat (") /\ Truthy(cur_obj)
        THEN IF match # None
             THEN [nat_entries |-> Append(entries, NatRecord(cur_obj[1], match[1], line)),
                   current_object |-> AfterUse(cur_obj)]
             ELSE [nat_entries |-> entries, current_object |-> cur_obj]
        ELSE [nat_entries |-> entries, current_object |-> cur_obj]

NatLine(raw, entries, cur_obj) ==
    LET line == strip(raw)
        match == nat_static_match(line)
    IN  IF startswith(line, "object network")
        THEN [nat_entries |-> entries, current_object |-> Some(ObjectName(line))]
        ELSE IF startswith(line, "nat (") /\ Truthy(cur_obj)
        THEN [nat_entries |->
                 IF match # None
                 THEN Append(entries, NatRecord(cur_obj[1], match[1], line))
                 ELSE entries,
              current_object |-> AfterUse(cur_obj)]
        ELSE [nat_entries |-> entries, current_object |-> cur_obj]

ObjectNatStep ==
    /\ pc["parse_object_nat"] = "loop"
    /\ i["parse_object_nat"] < Len(config_lines)
    /\ LET r == NatLine(config_lines[i["parse_object_nat"] + 1],
                        nat_entries, current_object)
       IN  /\ nat_entries' = r.nat_entries
           /\ current_object' = r.current_object
    /\ i' = [i EXCEPT !["parse_object_nat"] = @ + 1]
    /\ UNCHANGED <<config_lines, pc, interfaces, current, current_at, route_entries,
                   parsed, tokens, idx, result, returned>>

ObjectNatReturn ==
    /\ pc["parse_object_nat"] = "loop"
    /\ i["parse_object_nat"] = Len(config_lines)
    /\ pc' = [pc EXCEPT !["parse_object_nat"] = "done"]
    /\ returned' = [returned EXCEPT !["parse_object_nat"] = Append(@, Returns(nat_entries))]
    /\ UNCHANGED <<config_lines, i, interfaces, current, current_at, route_entries,
                   nat_entries, current_object, parsed, tokens, idx, result>>

\* parse_object_nat called once more: "nat_entries = []", "current_object =
\* None" whatever the call before left; the stale variant keeps the name
EntryCurrentObject_Stale(left) == left

EntryCurrentObject(left) == None

CallObjectNat ==
    /\ pc["parse_object_nat"] = "done"
    /\ Len(returned["parse_object_nat"]) < 2
    /\ nat_entries' = <<>>
    /\ current_object' = EntryCurrentObject(current_object)
    /\ i' = [i EXCEPT !["parse_object_nat"] = 0]
    /\ pc' = [pc EXCEPT !["parse_object_nat"] = "loop"]
    /\ UNCHANGED <<config_lines, interfaces, current, current_at, route_entries,
                   parsed, tokens, idx, result, returned>>

-----------------------------------------------------------------------------
(* parse_acl_line and parse_acls                                           *)

AclKeys ==
    {"acl_name", "action", "protocol", "source_zone", "source_type",
     "source_value", "source_port", "destination_zone", "destination_type",
     "destination_value", "destination_port", "rule_id", "raw"}

\* the dict parse_acl_line starts from
NewResult(line) == [k \in AclKeys |-> IF k = "raw" THEN strip(line) ELSE ""]

\* str(e) of the IndexError a list raises, as the except clause formats it
ParseErrorSuffix == "  # Parse error: list index out of range"

EndpointTypes == {"object", "object-group", "host"}
PortKeywords == {"eq", "range", "gt", "lt", "neq"}

\* Each clause of the try block maps the token list, the dict and the cursor
\* to the dict and cursor after it; err says that a token index was out of
\* range, with the assignments made before it kept.
Walk(res, ix, err) == [result |-> res, idx |-> ix, err |-> err]

\* acl_name, action, protocol from tokens 1, 3, 4; idx = 5
RequiredFields_Shifted(toks, res, ix) ==
    IF ~HasTok(toks, 1) THEN Walk(res, ix, TRUE)
    ELSE LET r1 == SetKey(res, "acl_name", Tok(toks, 1))
         IN  IF ~HasTok(toks, 2) THEN Walk(r1, ix, TRUE)
             ELSE LET r2 == SetKey(r1, "action", Tok(toks, 2))
                  IN  IF ~HasTok(toks, 3) THEN Walk(r2, ix, TRUE)
                      ELSE Walk(SetKey(r2, "protocol", Tok(toks, 3)), 4, FALSE)

RequiredFields(toks, res, ix) ==
    IF ~HasTok(toks, 1) THEN Walk(res, ix, TRUE)
    ELSE LET r1 == SetKey(res, "acl_name", Tok(toks, 1))
         IN  IF ~HasTok(toks, 3) THEN Walk(r1, ix, TRUE)
             ELSE LET r2 == SetKey(r1, "action", Tok(toks, 3))
                  IN  IF ~HasTok(toks, 4) THEN Walk(r2, ix, TRUE)
                      ELSE Walk(SetKey(r2, "protocol", Tok(toks, 4)), 5, FALSE)

\* if tokens[idx] == "ifc": source_zone
SourceZone(toks, res, ix) ==
    IF ~HasTok(toks, ix) THEN Walk(res, ix, TRUE)
    ELSE IF Tok(toks, ix) = "ifc"
    THEN IF ~HasTok(toks, ix + 1) THEN Walk(res, ix, TRUE)
         ELSE Walk(SetKey(res, "source_zone", Tok(toks, ix + 1)), ix + 2, FALSE)
    ELSE Walk(res, ix, FALSE)

\* if tokens[idx] in [...]: source_type, source_value  else: "any"
SourceEndpoint(toks, res, ix) ==
    IF ~HasTok(toks, ix) THEN Walk(res, ix, TRUE)
    ELSE IF Tok(toks, ix) \in EndpointTypes
    THEN LET r1 == SetKey(res, "source_type", Tok(toks, ix))
         IN  IF ~HasTok(toks, ix + 1) THEN Walk(r1, ix, TRUE)
             ELSE Walk(SetKey(r1, "source_value", Tok(toks, ix + 1)), ix + 2, FALSE)
    ELSE Walk(SetKey(SetKey(res, "source_type", "any"),
                     "source_value", Tok(toks, ix)), ix + 1, FALSE)

\* "idx += 3" after range, "idx += 2" after the other keywords
PortAdvance_Two(keyword) == 2

PortAdvance(keyword) == IF keyword = "range" THEN 3 ELSE 2

\* if idx < len(tokens) and tokens[idx] in [...]: range lo hi, or keyword v
PortQualifier(toks, res, ix, field) ==
    IF HasTok(toks, ix) /\ Tok(toks, ix) \in PortKeywords
    THEN IF Tok(toks, ix) = "range"
         THEN IF ~HasTok(toks, ix + 2) THEN Walk(res, ix, TRUE)
              ELSE Walk(SetKey(res, field,
                               Tok(toks, ix + 1) \o "-" \o Tok(toks, ix + 2)),
                        ix + PortAdvance(Tok(toks, ix)), FALSE)
         ELSE IF ~HasTok(toks, ix + 1) THEN Walk(res, ix, TRUE)
              ELSE Walk(SetKey(res, field, Tok(toks, ix + 1)),
                        ix + PortAdvance(Tok(toks, ix)), FALSE)
    ELSE Walk(res, ix, FALSE)

SourcePort(toks, res, ix) == PortQualifier(toks, res, ix, "source_port")

\* if idx < len(tokens) and tokens[idx] == "ifc": destination_zone
DestinationZone(toks, res, ix) ==
    IF HasTok(toks, ix) /\ Tok(toks, ix) = "ifc"
    THEN IF ~HasTok(toks, ix + 1) THEN Walk(res, ix, TRUE)
         ELSE Walk(SetKey(res, "destination_zone", Tok(toks, ix + 1)), ix + 2, FALSE)
    ELSE Walk(res, ix, FALSE)

\* if idx < len(tokens) and tokens[idx] in [...]  elif idx < len(tokens);
\* the variant that reads tokens[idx] as the source endpoint does first
DestinationEndpoint_Unguarded(toks, res, ix) ==
    IF ~HasTok(toks, ix) THEN Walk(res, ix, TRUE)
    ELSE IF Tok(toks, ix) \in EndpointTypes
    THEN LET r1 == SetKey(res, "destination_type", Tok(toks, ix))
         IN  IF ~HasTok(toks, ix + 1) THEN Walk(r1, ix, TRUE)
             ELSE Walk(SetKey(r1, "destination_value", Tok(toks, ix + 1)),
                       ix + 2, FALSE)
    ELSE Walk(SetKey(SetKey(res, "destination_type", "any"),
                     "destination_value", Tok(toks, ix)), ix + 1, FALSE)

DestinationEndpoint(toks, res, ix) ==
    IF HasTok(toks, ix) /\ Tok(toks, ix) \in EndpointTypes
    THEN LET r1 == SetKey(res, "destination_type", Tok(toks, ix))
         IN  IF ~HasTok(toks, ix + 1) THEN Walk(r1, ix, TRUE)
             ELSE Walk(SetKey(r1, "destination_value", Tok(toks, ix + 1)),
                       ix + 2, FALSE)
    ELSE IF HasTok(toks, ix)
    THEN Walk(SetKey(SetKey(res, "destination_type", "any"),
                     "destination_value", Tok(toks, ix)), ix + 1, FALSE)
    ELSE Walk(res, ix, FALSE)

DestinationPort(toks, res, ix) == PortQualifier(toks, res, ix, "destination_port")

\* tokens.index("rule-id"), 0-based; only used when "rule-id" in tokens
IndexOf(toks, t) ==
    (CHOOSE k \in 1..Len(toks) :
        toks[k] = t /\ \A m \in 1..(k - 1) : toks[m] # t) - 1

\* if "rule-id" in tokens: rule_id = tokens[tokens.index("rule-id") + 1];
\* the variants that take the keyword itself, or look for it at the cursor, first
RuleId_AtCursor(toks, res, ix) ==
    IF HasTok(toks, ix) /\ Tok(toks, ix) = "rule-id"
    THEN IF ~HasTok(toks, ix + 1) THEN Walk(res, ix, TRUE)
         ELSE Walk(SetKey(res, "rule_id", Tok(toks, ix + 1)), ix, FALSE)
    ELSE Walk(res, ix, FALSE)

RuleId_Keyword(toks, res, ix) ==
    IF \E k \in 1..Len(toks) : toks[k] = "rule-id"
    THEN Walk(SetKey(res, "rule_id", Tok(toks, IndexOf(toks, "rule-id"))), ix, FALSE)
    ELSE Walk(res, ix, FALSE)

RuleId(toks, res, ix) ==
    IF \E k \in 1..Len(toks) : toks[k] = "rule-id"
    THEN LET rule_idx == IndexOf(toks, "rule-id")
         IN  IF ~HasTok(toks, rule_idx + 1) THEN Walk(res, ix, TRUE)
             ELSE Walk(SetKey(res, "rule_id", Tok(toks, rule_idx + 1)), ix, FALSE)
    ELSE Walk(res, ix, FALSE)

\* except Exception as e: result["raw"] += f"  # Parse error: {e}"
ExceptClause_Silent(res) == res

ExceptClause(res) == [res EXCEPT !["raw"] = @ \o ParseErrorSuffix]

\* parse_acls: the filter on the line as read; the variant without the marker
\* test first
AclFilter_KeywordOnly(line) == startswith(line, "access-list")

AclFilter(line) == startswith(line, "access-list") /\ Contains(line, "advanced")

\* One iteration of parse_acls' loop up to the call: a line the filter drops,
\* or one for which parse_acl_line returns None, leaves parsed alone; any other
\* enters parse_acl_line's try block.
AclsStep ==
    /\ pc["parse_acls"] = "loop"
    /\ i["parse_acls"] < Len(config_lines)
    /\ LET line == config_lines[i["parse_acls"] + 1]
           toks == split(strip(line))
       IN  IF AclFilter(line)
           THEN /\ result' = NewResult(line)
                /\ tokens' = toks
                /\ pc' = [pc EXCEPT !["parse_acls"] =
                             IF toks = <<>> \/ toks[1] # "access-list"
                             THEN "loop" ELSE "required"]
           ELSE UNCHANGED <<result, tokens, pc>>
    /\ i' = [i EXCEPT !["parse_acls"] = @ + 1]
    /\ UNCHANGED <<config_lines, interfaces, current, current_at, route_entries,
                   nat_entries, current_object, parsed, idx, returned>>

\* One clause of the try block, w being what it computes.  On a fault the
\* except clause appends the diagnostic to raw, parse_acl_line returns the
\* dict and parse_acls appends it; after the last clause likewise, without
\* the diagnostic.
AclClause(here, next, w) ==
    /\ pc["parse_acls"] = here
    /\ idx' = w.idx
    /\ IF w.err
       THEN /\ result' = ExceptClause(w.result)
            /\ parsed' = Append(parsed, result')
            /\ pc' = [pc EXCEPT !["parse_acls"] = "loop"]
       ELSE /\ result' = w.result
            /\ parsed' = IF next = "loop" THEN Append(parsed, result') ELSE parsed
            /\ pc' = [pc EXCEPT !["parse_acls"] = next]
    /\ UNCHANGED <<config_lines, i, interfaces, current, current_at, route_entries,
                   nat_entries, current_object, tokens, returned>>

AclRequired == AclClause("required", "source_zone", RequiredFields(tokens, result, idx))
AclSourceZone == AclClause("source_zone", "source", SourceZone(tokens, result, idx))
AclSource == AclClause("source", "source_port", SourceEndpoint(tokens, result, idx))
AclSourcePort == AclClause("source_port", "destination_zone", SourcePort(tokens, result, idx))
AclDestinationZone ==
    AclClause("destination_zone", "destination", DestinationZone(tokens, result, idx))
AclDestination ==
    AclClause("destination", "destination_port", DestinationEndpoint(tokens, result, idx))
AclDestinationPort ==
    AclClause("destination_port", "rule_id", DestinationPort(tokens, result, idx))
AclRuleId == AclClause("rule_id", "loop", RuleId(tokens, result, idx))

AclsReturn ==
    /\ pc["parse_acls"] = "loop"
    /\ i["parse_acls"] = Len(config_lines)
    /\ pc' = [pc EXCEPT !["parse_acls"] = "done"]
    /\ returned' = [returned EXCEPT !["parse_acls"] = Append(@, Returns(parsed))]
    /\ UNCHANGED <<config_lines, i, interfaces, current, current_at, route_entries,
                   nat_entries, current_object, parsed, tokens, idx, result>>

\* parse_acls called once more: "parsed = []"; tokens, idx and result are
\* made anew by each call of parse_acl_line
CallAcls ==
    /\ pc["parse_acls"] = "done"
    /\ Len(returned["parse_acls"]) < 2
    /\ parsed' = <<>>
    /\ i' = [i EXCEPT !["parse_acls"] = 0]
    /\ pc' = [pc EXCEPT !["parse_acls"] = "loop"]
    /\ UNCHANGED <<config_lines, interfaces, current, current_at, route_entries,
                   nat_entries, current_object, tokens, idx, result, returned>>

-----------------------------------------------------------------------------
(* Inputs and specifications                                               *)

\* The sequences of at most n elements of S.
RECURSIVE SeqUpTo(_, _)
SeqUpTo(S, n) ==
    IF n = 0 THEN {<<>>}
    ELSE LET shorter == SeqUpTo(S, n - 1)
         IN  shorter \cup {Append(q, x) : q \in {p \in shorter : Len(p) = n - 1}, x \in S}

InterfaceLines ==
    {"interface Eth1\n", " nameif in\n", "nameif", " security-level 0\n",
     " ip address 10.1.1.1 255.0.0.0 standby 10.1.1.2\n", "ip address 10.1.1.1",
     " vlan 5\n", "!\n", "interface\tEth2", "x"}

InitOn(Lines, n) ==
    /\ config_lines \in SeqUpTo(Lines, n)
    /\ pc = [p \in Passes |-> "loop"]
    /\ i = [p \in Passes |-> 0]
    /\ interfaces = <<>>
    /\ current = EmptyDict
    /\ current_at = {}
    /\ route_entries = <<>>
    /\ nat_entries = <<>>
    /\ current_object = None
    /\ parsed = <<>>
    /\ tokens = <<>>
    /\ idx = 0
    /\ result = EmptyDict
    /\ returned = [p \in Passes |-> <<>>]

InitInterfaces == InitOn(InterfaceLines, MaxLines)
NextInterfaces == InterfacesStep \/ InterfacesReturn
SpecInterfaces == InitInterfaces /\ [][NextInterfaces]_vars

RouteLines ==
    {"route outside 10.0.0.0 255.0.0.0 192.168.1.1 1\n",
     "route outside 10.0.0.0 255.0.0.0 192.168.1.1\n",
     " route in 0.0.0.0 0.0.0.0 10.9.9.9 12 track 3\n",
     "route dmz 10.2.0.0 255.255.0.0 10.2.0.1 x1",
     "route in 10.3.0.0 255.255.0.0 10.3.0.1 7x",
     "route  outside 10.0.0.0 255.0.0.0 192.168.1.1 1",
     "route outside 10.0.0.0 255.0.0.0\t192.168.1.1",
     "route outside 10.0.0.0 255.0.0.0\n",
     "route dmz 10.2.0.0 255.255.0.0 10.2.0.1  5",
     "router ospf 1 a b c",
     "no route a b c d"}

InitRoutes == InitOn(RouteLines, MaxLines)
NextRoutes == RoutesStep \/ RoutesReturn
SpecRoutes == InitRoutes /\ [][NextRoutes]_vars

NatLines ==
    {"object network WEBSRV\n", "object network DB\n", "object network",
     " nat (inside,outside) static WEBSRV-NAT\n",
     " nat (dmz,outside) static 10.0.0.9 service tcp 80 80\n",
     "nat (dmz,outside) static DB-NAT",
     " nat (inside,outside) dynamic interface\n",
     "nat (inside,outside)  static X", "!"}

InitObjectNat == InitOn(NatLines, MaxLines)
NextObjectNat == ObjectNatStep \/ ObjectNatReturn
SpecObjectNat == InitObjectNat /\ [][NextObjectNat]_vars

AclLines ==
    {"access-list OUT advanced permit tcp object WEBSRV eq 443 any rule-id 268\n",
     "access-list OUT extended permit tcp object WEBSRV eq 443 any rule-id 268\n",
     "access-list OUT advanced permit tcp object WEBSRV eq 443 host rule-id 268",
     "access-list OUT advanced permit tcp object rule-id eq 443 any rule-id 268",
     "access-list advanced-in extended deny udp object DNS eq 53 10.0.0.0/8 rule-id 7",
     "access-list CSM advanced deny udp ifc in host 10.1.1.1 range 1000 2000 ifc out object-group G neq 53 rule-id 9",
     "access-list CSM advanced permit ip any any eq\n",
     "access-list CSM advanced permit ip any\n",
     "access-list CSM advanced permit tcp host 10.1.1.1 gt 1024",
     "access-list CSM advanced permit ip host rule-id",
     "access-list CSM advanced permit ip any rule-id eq",
     "access-list CSM advanced trust ip\n",
     "access-list CSM advanced permit",
     "access-list advanced",
     "access-list-advanced X permit",
     " access-list CSM advanced permit ip any any\n"}

InitAcls == InitOn(AclLines, MaxAclLines)
NextAcls ==
    \/ AclsStep \/ AclRequired \/ AclSourceZone \/ AclSource \/ AclSourcePort
    \/ AclDestinationZone \/ AclDestination \/ AclDestinationPort \/ AclRuleId
    \/ AclsReturn
SpecAcls == InitAcls /\ [][NextAcls]_vars

\* main: the four passes one after the other over the same config_lines; a
\* pass that raised ends the program.
MainLines ==
    {"interface Eth1\n", "nameif", "!\n",
     "route outside 10.0.0.0 255.0.0.0 192.168.1.1 1\n",
     "object network WEBSRV\n", " nat (inside,outside) static WEBSRV-NAT\n",
     "access-list OUT advanced permit tcp object WEBSRV eq 443 any rule-id 268\n"}

Init == InitOn(MainLines, MaxLines)
Next ==
    \/ InterfacesStep
    \/ InterfacesReturn
    \/ pc["parse_interfaces"] = "done" /\ RoutesStep
    \/ pc["parse_interfaces"] = "done" /\ RoutesReturn
    \/ pc["parse_routes"] = "done" /\ ObjectNatStep
    \/ pc["parse_routes"] = "done" /\ ObjectNatReturn
    \/ pc["parse_object_nat"] = "done" /\ NextAcls
Spec == Init /\ [][Next]_vars

\* The recognizers as functions of the list of lines: the loop bodies above,
\* applied to the lines in order from the state the function starts in.
RECURSIVE InterfacesAfter(_, _)
InterfacesAfter(lines, n) ==
    IF n = 0
    THEN [interfaces |-> <<>>, current |-> EmptyDict, current_at |-> {},
          raised |-> FALSE]
    ELSE LET s == InterfacesAfter(lines, n - 1)
         IN  IF s.raised THEN s
             ELSE InterfaceLine(lines[n], s.interfaces, s.current, s.current_at)

parse_interfaces(lines) ==
    LET s == InterfacesAfter(lines, Len(lines))
    IN  IF s.raised THEN Raises ELSE Returns(Finalize(s.interfaces, s.current))

RECURSIVE RoutesAfter(_, _)
RoutesAfter(lines, n) ==
    IF n = 0 THEN <<>> ELSE RouteLine(lines[n], RoutesAfter(lines, n - 1))

parse_routes(lines) == Returns(RoutesAfter(lines, Len(lines)))

RECURSIVE ObjectNatAfter(_, _)
ObjectNatAfter(lines, n) ==
    IF n = 0 THEN [nat_entries |-> <<>>, current_object |-> None]
    ELSE LET s == ObjectNatAfter(lines, n - 1)
         IN  NatLine(lines[n], s.nat_entries, s.current_object)

parse_object_nat(lines) == Returns(ObjectNatAfter(lines, Len(lines)).nat_entries)

\* the next clause of the try block, unless an earlier one faulted
Then(w, Clause(_, _, _), toks) ==
    IF w.err THEN w ELSE Clause(toks, w.result, w.idx)

\* parse_acl_line(line): None, or Some of the dict it returns
parse_acl_line(line) ==
    LET toks == split(strip(line))
        w1 == RequiredFields(toks, NewResult(line), 0)
        w2 == Then(w1, SourceZone, toks)
        w3 == Then(w2, SourceEndpoint, toks)
        w4 == Then(w3, SourcePort, toks)
        w5 == Then(w4, DestinationZone, toks)
        w6 == Then(w5, DestinationEndpoint, toks)
        w7 == Then(w6, DestinationPort, toks)
        w8 == Then(w7, RuleId, toks)
    IN  IF toks = <<>> \/ toks[1] # "access-list" THEN None
        ELSE Some(IF w8.err THEN ExceptClause(w8.result) ELSE w8.result)

RECURSIVE AclsAfter(_, _)
AclsAfter(lines, n) ==
    IF n = 0 THEN <<>>
    ELSE LET before == AclsAfter(lines, n - 1)
             acl == parse_acl_line(lines[n])
         IN  IF AclFilter(lines[n]) /\ acl # None
             THEN Append(before, acl[1]) ELSE before

parse_acls(lines) == Returns(AclsAfter(lines, Len(lines)))

\* main: how the calls it makes end, per recognizer; an IndexError that
\* leaves parse_interfaces ends main before it calls the others.
main(lines) ==
    LET first == parse_interfaces(lines)
    IN  [p \in Passes |->
            IF p = "parse_interfaces" THEN <<first>>
            ELSE IF first.raised THEN <<>>
            ELSE IF p = "parse_routes" THEN <<parse_routes(lines)>>
            ELSE IF p = "parse_object_nat" THEN <<parse_object_nat(lines)>>
            ELSE <<parse_acls(lines)>>]

\* The four recognizers as four processes over the same list: any of them
\* takes its next step.
ParallelLines ==
    {"interface Eth1\n", "nameif",
     "route outside 10.0.0.0 255.0.0.0 192.168.1.1 1\n",
     "object network WEBSRV\n", " nat (inside,outside) static WEBSRV-NAT\n",
     "access-list CSM advanced permit ip any\n"}

InitParallel == InitOn(ParallelLines, MaxParallelLines)
NextParallel == NextInterfaces \/ NextRoutes \/ NextObjectNat \/ NextAcls
SpecParallel == InitParallel /\ [][NextParallel]_vars

\* One recognizer called on a list of lines, and called once more on the same
\* list when it has ended; the others are not called ("idle").
CallLines(p) ==
    CASE p = "parse_interfaces" ->
            {"interface Eth1\n", "interface Eth2\n", " nameif in\n", "!\n"}
      [] p = "parse_routes" ->
            {"route outside 10.0.0.0 255.0.0.0 192.168.1.1 1\n",
             " route in 0.0.0.0 0.0.0.0 10.9.9.9 12 track 3\n", "x"}
      [] p = "parse_object_nat" ->
            {"object network WEBSRV\n", " nat (inside,outside) static WEBSRV-NAT\n",
             "nat (dmz,outside) static DB-NAT"}
      [] p = "parse_acls" ->
            {"access-list CSM advanced permit ip any\n",
             "access-list CSM advanced permit ip any any eq\n"}

InitTwice ==
    \E p \in Passes :
        /\ config_lines \in SeqUpTo(CallLines(p), MaxCallLines)
        /\ pc = [q \in Passes |-> IF q = p THEN "loop" ELSE "idle"]
        /\ i = [q \in Passes |-> 0]
        /\ interfaces = <<>>
        /\ current = EmptyDict
        /\ current_at = {}
        /\ route_entries = <<>>
        /\ nat_entries = <<>>
        /\ current_object = None
        /\ parsed = <<>>
        /\ tokens = <<>>
        /\ idx = 0
        /\ result = EmptyDict
        /\ returned = [q \in Passes |-> <<>>]
NextTwice ==
    \/ NextInterfaces \/ NextRoutes \/ NextObjectNat \/ NextAcls
    \/ CallInterfaces \/ CallRoutes \/ CallObjectNat \/ CallAcls
SpecTwice == InitTwice /\ [][NextTwice]_vars

-----------------------------------------------------------------------------
(* Properties                                                              *)

\* the line a pass takes in its next iteration
NextLine(p) == config_lines[i[p] + 1]

\* a step in which pass p takes a line
Takes(p) == i'[p] = i[p] + 1

EndsWith(s, p) == Len(s) >= Len(p) /\ SubSeq(s, Len(s) - Len(p) + 1, Len(s)) = p

\* C1: every recognizer runs to the end of the input and returns; no
\* exception leaves a recognizer, so no pass ever ends by raising.
C1_NoFaultEscapes == \A p \in Passes : pc[p] # "raised"

\* Names the inputs use, to spell lines of a given shape.
ObjectNames == {"WEBSRV", "DB"}
InterfaceNames == {"inside", "outside", "dmz"}
Targets == {"WEBSRV-NAT", "DB-NAT", "X"}

IsObjectDecl(l) == startswith(strip(l), "object network")
StartsNat(l) == startswith(strip(l), "nat (")
DeclNaming(l, N) == strip(l) = "object network " \o N
StaticLine(l, S, D, T) == strip(l) = "nat (" \o S \o "," \o D \o ") static " \o T
IsStaticLine(l) ==
    \E S \in InterfaceNames, D \in InterfaceNames, T \in Targets : StaticLine(l, S, D, T)

Pending == IF Truthy(current_object) THEN 1 ELSE 0

\* C2: an object declaration is consumed by at most one NAT directive.  The
\* records emitted plus the pending name never outnumber the declarations
\* read; a step emits at most one record, only by consuming the pending name;
\* a NAT line met with no pending name emits nothing; and only an object
\* declaration makes a name pending.
C2_OneShot ==
    /\ [](Len(nat_entries) + Pending
            <= Cardinality({k \in 1..i["parse_object_nat"] : IsObjectDecl(config_lines[k])}))
    /\ [][Takes("parse_object_nat") =>
            LET line == NextLine("parse_object_nat")
            IN  /\ Len(nat_entries') \in {Len(nat_entries), Len(nat_entries) + 1}
                /\ Len(nat_entries') > Len(nat_entries) =>
                      /\ StartsNat(line)
                      /\ Truthy(current_object)
                      /\ ~Truthy(current_object')
                /\ StartsNat(line) /\ ~Truthy(current_object) =>
                      nat_entries' = nat_entries
                /\ Truthy(current_object') /\ current_object' # current_object =>
                      IsObjectDecl(line)]_vars

\* two NAT static lines after one object declaration: one record
C2_Witness ==
    /\ i["parse_object_nat"] = 3
    /\ DeclNaming(config_lines[1], "WEBSRV")
    /\ IsStaticLine(config_lines[2])
    /\ IsStaticLine(config_lines[3])
    /\ Len(nat_entries) = 1

ExpectedNat(N, S, D, T, l) ==
    [object_name |-> N, source_interface |-> S, destination_interface |-> D,
     nat_type |-> "static", translated_object |-> T, raw |-> strip(l)]

\* no line of config_lines strictly between a and b satisfies P
NoneBetween(a, b, P(_)) == \A c \in (a + 1)..(b - 1) : ~P(config_lines[c])

\* C3 as stated: a line "nat (S,D) static T" that follows a declaration of N
\* with no other declaration in between produces the record (N, S, D, static, T).
C3_Original ==
    [][Takes("parse_object_nat") =>
        \A a \in 1..i["parse_object_nat"], N \in ObjectNames,
           S \in InterfaceNames, D \in InterfaceNames, T \in Targets :
            (/\ DeclNaming(config_lines[a], N)
             /\ StaticLine(NextLine("parse_object_nat"), S, D, T)
             /\ NoneBetween(a, i["parse_object_nat"] + 1, IsObjectDecl))
            => nat_entries' = Append(nat_entries,
                    ExpectedNat(N, S, D, T, NextLine("parse_object_nat")))]_vars

\* C3 (amended): the same, when in addition no line beginning with "nat ("
\* stands between the declaration and the static line; the step appends that
\* one record and leaves no name pending.
C3_StaticPairs ==
    [][Takes("parse_object_nat") /\ StartsNat(NextLine("parse_object_nat")) =>
        \A S \in InterfaceNames, D \in InterfaceNames, T \in Targets :
            StaticLine(NextLine("parse_object_nat"), S, D, T) =>
                \A a \in 1..i["parse_object_nat"], N \in ObjectNames :
                    (/\ DeclNaming(config_lines[a], N)
                     /\ NoneBetween(a, i["parse_object_nat"] + 1, IsObjectDecl)
                     /\ NoneBetween(a, i["parse_object_nat"] + 1, StartsNat))
                    => /\ nat_entries' = Append(nat_entries,
                            ExpectedNat(N, S, D, T, NextLine("parse_object_nat")))
                       /\ current_object' = None]_vars

\* a declaration, an unrelated line, then the static line: the pair is made
C3_Witness ==
    /\ i["parse_object_nat"] = 3
    /\ DeclNaming(config_lines[1], "DB")
    /\ strip(config_lines[2]) = "!"
    /\ StaticLine(config_lines[3], "dmz", "outside", "DB-NAT")
    /\ nat_entries = <<ExpectedNat("DB", "dmz", "outside", "DB-NAT", config_lines[3])>>
    /\ current_object = None

\* C4: a nameif line met while no record is in progress is ignored: the
\* record in progress, if any, and every record of the output were started by
\* an interface declaration (they carry its Interface key).
C4_Original ==
    /\ current # EmptyDict => "Interface" \in DOMAIN current
    /\ \A k \in 1..Len(interfaces) : "Interface" \in DOMAIN interfaces[k]

\* parse_acls stands between two lines (or has returned)
BetweenAclLines == pc["parse_acls"] \in {"loop", "done"}

Words(l) == split(strip(l))
HasSuffix(raw) == EndsWith(raw, ParseErrorSuffix)

\* the records of parsed whose raw field is r
RecordsWithRaw(r) == {m \in 1..Len(parsed) : parsed[m]["raw"] = r}

\* the lines read so far whose trimmed text is that of l
ReadLike(l) ==
    LET raw == strip(l)
    IN  {j \in 1..i["parse_acls"] : strip(config_lines[j]) = raw}

EmptyRecord(raw) == [k \in AclKeys |-> IF k = "raw" THEN raw ELSE ""]

\* an ACL line that passes the filter with too few tokens for the required fields
ShortAclLine(l) == AclFilter(l) /\ Len(Words(l)) < 5

\* C5 as stated: a line that passes the filter but has fewer than five tokens
\* yields no record.
C5_Original ==
    BetweenAclLines =>
        \A k \in 1..i["parse_acls"] :
            LET raw == strip(config_lines[k])
            IN  ShortAclLine(config_lines[k]) =>
                    /\ RecordsWithRaw(raw) = {}
                    /\ RecordsWithRaw(raw \o ParseErrorSuffix) = {}

\* what a short line of tokens w leaves: the required fields its tokens reach
ShortRecord(w, raw) ==
    [EmptyRecord(raw \o ParseErrorSuffix) EXCEPT
        !["acl_name"] = IF Len(w) >= 2 THEN w[2] ELSE "",
        !["action"] = IF Len(w) >= 4 THEN w[4] ELSE ""]

ExpectedShort(l) == ShortRecord(Words(l), strip(l))

\* C5 (amended): such a line, when its first token is access-list, yields one
\* record per occurrence: the required fields its tokens reach, every other
\* field empty, raw the trimmed line with the diagnostic suffix; when its
\* first token only begins with access-list it yields none.
C5_ShortLineAnnotated ==
    BetweenAclLines =>
        \A k \in 1..i["parse_acls"] :
            LET l == config_lines[k]
                w == Words(l)
                raw == strip(l)
                expected == ShortRecord(w, raw)
                marked == RecordsWithRaw(raw \o ParseErrorSuffix)
            IN  AclFilter(l) /\ Len(w) < 5 =>
                    /\ RecordsWithRaw(raw) = {}
                    /\ \A m \in marked : parsed[m] = expected
                    /\ Cardinality(marked) =
                          IF w[1] = "access-list"
                          THEN Cardinality(ReadLike(l)) ELSE 0

C5_Witness ==
    /\ pc["parse_acls"] = "loop"
    /\ i["parse_acls"] = 1
    /\ ShortAclLine(config_lines[1])
    /\ Len(Words(config_lines[1])) = 4
    /\ parsed = <<ExpectedShort(config_lines[1])>>
    /\ parsed[1]["action"] # ""

\* the positions of parse_acl_line's try block, in order
WalkOrder ==
    <<"required", "source_zone", "source", "source_port",
      "destination_zone", "destination", "destination_port", "rule_id">>

InWalk == \E n \in 1..Len(WalkOrder) : pc["parse_acls"] = WalkOrder[n]

Place(c) == CHOOSE n \in 1..Len(WalkOrder) : WalkOrder[n] = c

\* the fields the clause at position c may assign
ClauseFields(c) ==
    CASE c = "required" -> {"acl_name", "action", "protocol"}
      [] c = "source_zone" -> {"source_zone"}
      [] c = "source" -> {"source_type", "source_value"}
      [] c = "source_port" -> {"source_port"}
      [] c = "destination_zone" -> {"destination_zone"}
      [] c = "destination" -> {"destination_type", "destination_value"}
      [] c = "destination_port" -> {"destination_port"}
      [] c = "rule_id" -> {"rule_id"}

\* the fields of the clauses from position c on
FieldsFrom(c) == UNION {ClauseFields(WalkOrder[n]) : n \in Place(c)..Len(WalkOrder)}

\* The highest token index (0-based) the clause at position c needs with the
\* cursor at k, by the clause shapes of the grammar: a keyword and its one or
\* two values; -1 when the clause needs no token.
Needs(c, t, k) ==
    LET at(w) == HasTok(t, k) /\ Tok(t, k) \in w
    IN  CASE c = "required" -> 4
          [] c = "source_zone" -> IF at({"ifc"}) THEN k + 1 ELSE k
          [] c = "source" -> IF at(EndpointTypes) THEN k + 1 ELSE k
          [] c \in {"source_port", "destination_port"} ->
                IF at({"range"}) THEN k + 2
                ELSE IF at(PortKeywords) THEN k + 1 ELSE -1
          [] c = "destination_zone" -> IF at({"ifc"}) THEN k + 1 ELSE -1
          [] c = "destination" -> IF at(EndpointTypes) THEN k + 1 ELSE -1
          [] c = "rule_id" ->
                IF \E n \in 1..Len(t) : t[n] = "rule-id"
                THEN SetMin({n \in 1..Len(t) : t[n] = "rule-id"}) ELSE -1

\* the step of the try block taken from position c meets an out-of-range index
Faults(c, t, k) == Needs(c, t, k) >= Len(t)

\* what a step that faults at position c leaves in field f of its clause: the
\* token it had read in range before the fault, if any
LeftByFault(c, f, t, k) ==
    CASE f = "acl_name" /\ HasTok(t, 1) -> Tok(t, 1)
      [] f = "action" /\ HasTok(t, 3) -> Tok(t, 3)
      [] f \in {"source_type", "destination_type"} /\ HasTok(t, k) -> Tok(t, k)
      [] OTHER -> ""

\* an ACL line for which parse_acl_line reads the three required fields
FullAclLine(l) ==
    AclFilter(l) /\ Len(Words(l)) >= 5 /\ Words(l)[1] = "access-list"

\* C6 as stated, on the records: a line whose required fields were read
\* yields exactly one record, raw being the trimmed line with or without
\* the suffix; and a raw field carries the suffix only on a record whose
\* three required fields were read (the fault was in the optional clauses).
C6_Original ==
    /\ BetweenAclLines =>
          \A k \in 1..i["parse_acls"] :
              LET l == config_lines[k]
                  raw == strip(l)
              IN  FullAclLine(l) =>
                      Cardinality(RecordsWithRaw(raw)
                                  \cup RecordsWithRaw(raw \o ParseErrorSuffix))
                          = Cardinality(ReadLike(l))
    /\ \A m \in 1..Len(parsed) :
          HasSuffix(parsed[m]["raw"]) => parsed[m]["protocol"] # ""

\* C6 (amended): in parse_acl_line's try block a step assigns only the fields
\* of its own clause; the fields of the clauses not yet reached are empty; a
\* step that meets an out-of-range index, in the optional clauses or already
\* in the required fields, appends the suffix to raw and hands the record, as
\* it stands, to parsed, and parse_acls is back at its loop; a step that
\* meets none leaves raw alone, and only the last one appends the record.
C6_FaultAnnotated ==
    /\ [](InWalk =>
            /\ \A f \in FieldsFrom(pc["parse_acls"]) : result[f] = ""
            /\ result["raw"] = strip(config_lines[i["parse_acls"]])
            /\ tokens = Words(config_lines[i["parse_acls"]]))
    /\ [][InWalk =>
            LET c == pc["parse_acls"]
            IN  /\ \A f \in AclKeys \ (ClauseFields(c) \cup {"raw"}) :
                      result'[f] = result[f]
                /\ IF Faults(c, tokens, idx)
                   THEN /\ result'["raw"] = result["raw"] \o ParseErrorSuffix
                        /\ \A f \in ClauseFields(c) :
                              result'[f] = LeftByFault(c, f, tokens, idx)
                        /\ parsed' = Append(parsed, result')
                        /\ pc'["parse_acls"] = "loop"
                   ELSE /\ result'["raw"] = result["raw"]
                        /\ IF c = "rule_id"
                           THEN parsed' = Append(parsed, result')
                                /\ pc'["parse_acls"] = "loop"
                           ELSE parsed' = parsed
                                /\ pc'["parse_acls"] = WalkOrder[Place(c) + 1]]_vars

\* a port keyword with no value: the record keeps what was read, is marked,
\* and the next line is parsed
C6_Witness ==
    /\ pc["parse_acls"] = "loop"
    /\ i["parse_acls"] = 2
    /\ Len(parsed) = 2
    /\ strip(config_lines[1]) = "access-list CSM advanced permit ip any any eq"
    /\ parsed[1]["raw"] = strip(config_lines[1]) \o ParseErrorSuffix
    /\ parsed[1]["destination_value"] = "any"
    /\ parsed[1]["destination_port"] = ""
    /\ parsed[1]["rule_id"] = ""
    /\ ~HasSuffix(parsed[2]["raw"])

\* the tokens of a line "access-list NAME TYPE ACTION PROTO object V eq P DST rule-id R"
ExampleShape(w) ==
    /\ Len(w) = 12
    /\ w[1] = "access-list"
    /\ w[6] = "object"
    /\ w[8] = "eq"
    /\ w[11] = "rule-id"

HasExampleShape(l) == ExampleShape(Words(l))

\* the record the claim gives for such tokens, raw being the trimmed line
ExampleRecord(w, raw) ==
    [EmptyRecord(raw) EXCEPT
        !["acl_name"] = w[2],
        !["action"] = w[4],
        !["protocol"] = w[5],
        !["source_type"] = "object",
        !["source_value"] = w[7],
        !["source_port"] = w[9],
        !["destination_type"] = "any",
        !["destination_value"] = w[10],
        !["rule_id"] = w[12]]

ExpectedExample(l) == ExampleRecord(Words(l), strip(l))

\* C7 as stated: for every line of the example's shape, whatever TYPE and
\* the other tokens are, the ACL recognizer yields the record of the claim.
C7_Original ==
    BetweenAclLines =>
        \A k \in 1..i["parse_acls"] :
            LET w == Words(config_lines[k])
                expected == ExampleRecord(w, strip(config_lines[k]))
            IN  ExampleShape(w) => \E m \in 1..Len(parsed) : parsed[m] = expected

\* among tokens of the shape: DST is one token of its own, and rule-id occurs
\* only where the shape has it
PlainExample(w) ==
    /\ ExampleShape(w)
    /\ w[10] \notin EndpointTypes \cup {"ifc"}
    /\ \A n \in 1..10 : w[n] # "rule-id"

\* C7 (amended): the record of the claim is yielded, once per occurrence, for
\* the lines of that shape that pass parse_acls' filter (they contain
\* "advanced", as TYPE or elsewhere), whose DST is none of ifc, object,
\* object-group, host and in which rule-id occurs only before R; a line of
\* the shape that does not contain "advanced" yields no record.
C7_ExampleRecord ==
    BetweenAclLines =>
        \A k \in 1..i["parse_acls"] :
            LET l == config_lines[k]
                w == Words(l)
                raw == strip(l)
                expected == ExampleRecord(w, raw)
                found == {m \in 1..Len(parsed) : parsed[m] = expected}
            IN  ExampleShape(w) =>
                    /\ PlainExample(w) /\ AclFilter(l) =>
                          Cardinality(found) = Cardinality(ReadLike(l))
                    /\ ~AclFilter(l) => RecordsWithRaw(raw) = {}

C7_Witness ==
    /\ pc["parse_acls"] = "loop"
    /\ i["parse_acls"] = 1
    /\ PlainExample(Words(config_lines[1]))
    /\ Words(config_lines[1])[3] = "advanced"
    /\ parsed = <<ExpectedExample(config_lines[1])>>
    /\ parsed[1]["source_port"] = "443"
    /\ parsed[1]["rule_id"] = "268"

\* the step of parse_acl_line that handles a port qualifier
AtPort == pc["parse_acls"] \in {"source_port", "destination_port"}
PortField == IF pc["parse_acls"] = "source_port" THEN "source_port" ELSE "destination_port"

\* C8: with the cursor on "range lo hi" the port field becomes "lo-hi" and
\* the cursor moves by three; on eq, gt, lt or neq followed by v the field
\* becomes v and the cursor moves by two; on any other token, or past the
\* end, the field stays empty and the cursor stays.
C8_PortQualifier ==
    [][AtPort =>
        LET key == IF HasTok(tokens, idx) THEN Tok(tokens, idx) ELSE ""
        IN  /\ key = "range" /\ HasTok(tokens, idx + 2) =>
                  /\ result'[PortField] =
                        Tok(tokens, idx + 1) \o "-" \o Tok(tokens, idx + 2)
                  /\ idx' = idx + 3
            /\ key \in {"eq", "gt", "lt", "neq"} /\ HasTok(tokens, idx + 1) =>
                  /\ result'[PortField] = Tok(tokens, idx + 1)
                  /\ idx' = idx + 2
            /\ key \notin {"range", "eq", "gt", "lt", "neq"} =>
                  /\ result'[PortField] = ""
                  /\ idx' = idx]_vars

\* a source range and a destination neq have been read on one line
C8_Witness ==
    /\ pc["parse_acls"] = "rule_id"
    /\ result["source_port"] = "1000-2000"
    /\ result["destination_port"] = "53"
    /\ Tok(tokens, idx - 2) = "neq"
    /\ Tok(tokens, 9) = "range"

\* The lines of a well-formed interface block: the declaration "interface
\* <id>", the terminator, the four kinds of field line with the tokens they
\* need, and lines that begin with none of the keywords.
IsDeclaration(l) == Len(Words(l)) = 2 /\ strip(l) = "interface " \o Words(l)[2]
IsTerminator(l) == strip(l) = "!"
IsFieldLine(l) ==
    LET w == Words(l)
    IN  \/ Len(w) = 2 /\ w[1] \in {"nameif", "security-level", "vlan"}
        \/ /\ Len(w) \in {4, 6}
           /\ startswith(strip(l), "ip address ")
           /\ Len(w) = 6 => w[5] = "standby"
IsOtherLine(l) ==
    /\ Words(l) # <<>>
    /\ ~IsTerminator(l)
    /\ \A key \in {"interface", "nameif", "security-level", "ip", "vlan"} :
          ~startswith(strip(l), key)

\* config_lines is a sequence of such blocks, each closed by "!", the last
\* one possibly left open
ValidBlocks ==
    \A k \in 1..Len(config_lines) :
        LET l == config_lines[k]
            opens == k = 1 \/ IsTerminator(config_lines[k - 1])
        IN  \/ IsDeclaration(l) /\ opens
            \/ (IsFieldLine(l) \/ IsOtherLine(l) \/ IsTerminator(l)) /\ ~opens

Terminators == {k \in 1..Len(config_lines) : IsTerminator(config_lines[k])}

OpenAtEnd ==
    IF config_lines # <<>> /\ ~IsTerminator(config_lines[Len(config_lines)])
    THEN 1 ELSE 0

\* C9: on an input made of valid interface blocks parse_interfaces returns,
\* and the number of records equals the number of terminator lines, plus one
\* if the final block has no terminator.
C9_RecordPerBlock ==
    ValidBlocks =>
        /\ pc["parse_interfaces"] # "raised"
        /\ pc["parse_interfaces"] = "done" =>
              Len(interfaces) = Cardinality(Terminators) + OpenAtEnd

\* a closed block followed by an open one: two records
C9_Witness ==
    /\ pc["parse_interfaces"] = "done"
    /\ ValidBlocks
    /\ Len(config_lines) = 3
    /\ Terminators = {2}
    /\ Len(interfaces) = 2

AllDigits(t) == t # "" /\ DigitRun(t, 1) = Len(t)

\* C10 as stated, read as a pattern on the line's tokens that may be followed
\* by more: a record for exactly the lines whose tokens are the route keyword
\* and at least four more, the fields being those four, and metric the token
\* after them when it is a number, else empty.
C10_Original ==
    [][Takes("parse_routes") =>
        LET w == Words(NextLine("parse_routes"))
        IN  IF Len(w) >= 5 /\ w[1] = "route"
            THEN route_entries' = Append(route_entries,
                    [interface |-> w[2], destination |-> w[3], netmask |-> w[4],
                     gateway |-> w[5],
                     metric |-> IF Len(w) >= 6 /\ AllDigits(w[6]) THEN w[6] ELSE ""])
            ELSE route_entries' = route_entries]_vars

\* C10 (amended): a record for exactly the lines whose trimmed text begins
\* with route and four tokens, each after one single space, whatever follows;
\* the fields are those tokens, and metric is the digits that begin the next
\* token when that token comes after one single space, else empty.
C10_RoutePrefix ==
    [][Takes("parse_routes") =>
        LET s == strip(NextLine("parse_routes"))
            w == split(s)
            head == "route " \o w[2] \o " " \o w[3] \o " " \o w[4] \o " " \o w[5]
            digits == IF Len(w) >= 6 THEN SubSeq(w[6], 1, DigitRun(w[6], 1)) ELSE ""
        IN  IF Len(w) >= 5 /\ w[1] = "route" /\ startswith(s, head)
            THEN route_entries' = Append(route_entries,
                    [interface |-> w[2], destination |-> w[3], netmask |-> w[4],
                     gateway |-> w[5],
                     metric |-> IF digits # "" /\ startswith(s, head \o " " \o digits)
                                THEN digits ELSE ""])
            ELSE route_entries' = route_entries]_vars

\* the example line with its metric, then without
C10_Witness ==
    /\ i["parse_routes"] = 2
    /\ strip(config_lines[1]) = "route outside 10.0.0.0 255.0.0.0 192.168.1.1 1"
    /\ strip(config_lines[2]) = "route outside 10.0.0.0 255.0.0.0 192.168.1.1"
    /\ route_entries =
          <<[interface |-> "outside", destination |-> "10.0.0.0",
             netmask |-> "255.0.0.0", gateway |-> "192.168.1.1", metric |-> "1"],
            [interface |-> "outside", destination |-> "10.0.0.0",
             netmask |-> "255.0.0.0", gateway |-> "192.168.1.1", metric |-> ""]>>

\* the line as read begins with access-list and contains advanced
MarkedAclLine(l) ==
    /\ Len(l) >= 11 /\ SubSeq(l, 1, 11) = "access-list"
    /\ \E k \in 1..(Len(l) - 7) : SubSeq(l, k, k + 7) = "advanced"

\* C11: parse_acls emits a record for a line only if the line begins with
\* access-list and contains advanced.  A step that takes any other line
\* leaves parsed alone and does not enter parse_acl_line; parsed only grows by
\* one record, for the line in hand, which is such a line; so the records
\* never outnumber such lines among those read.
C11_OnlyMarkedAclLines ==
    /\ [](Len(parsed) <=
            Cardinality({k \in 1..i["parse_acls"] : MarkedAclLine(config_lines[k])}))
    /\ [][/\ Takes("parse_acls") /\ ~MarkedAclLine(NextLine("parse_acls")) =>
                parsed' = parsed /\ pc'["parse_acls"] = "loop"
          /\ parsed' # parsed =>
                /\ MarkedAclLine(config_lines[i["parse_acls"]])
                /\ \E r \in {result'} : parsed' = Append(parsed, r)
                /\ result'["raw"] \in
                      {strip(config_lines[i["parse_acls"]]),
                       strip(config_lines[i["parse_acls"]]) \o ParseErrorSuffix}]_vars

\* an access-list line without the marker, then one with it: one record
C11_Witness ==
    /\ pc["parse_acls"] = "loop"
    /\ i["parse_acls"] = 2
    /\ startswith(config_lines[1], "access-list OUT extended")
    /\ MarkedAclLine(config_lines[2])
    /\ Len(parsed) = 1
    /\ parsed[1]["raw"] = strip(config_lines[2])

\* the output collection of a recognizer
Output(p) ==
    CASE p = "parse_interfaces" -> interfaces
      [] p = "parse_routes" -> route_entries
      [] p = "parse_object_nat" -> nat_entries
      [] p = "parse_acls" -> parsed

\* Record rec of recognizer p can have come from line l: an interface record
\* from the declaration of its identifier (one with no identifier from a field
\* line), a route record from a route line with its four tokens, a NAT or ACL
\* record from the line its raw field quotes.
ComesFrom(p, rec, l) ==
    CASE p = "parse_interfaces" ->
            IF "Interface" \in DOMAIN rec
            THEN /\ startswith(strip(l), "interface ")
                 /\ rec["Interface"] = Words(l)[2]
            ELSE \E key \in {"nameif", "security-level", "ip address", "vlan"} :
                    startswith(strip(l), key)
      [] p = "parse_routes" ->
            LET w == Words(l)
            IN  /\ Len(w) >= 5 /\ w[1] = "route"
                /\ <<rec.interface, rec.destination, rec.netmask, rec.gateway>>
                      = SubSeq(w, 2, 5)
      [] p = "parse_object_nat" -> rec.raw = strip(l)
      [] p = "parse_acls" ->
            rec["raw"] \in {strip(l), strip(l) \o ParseErrorSuffix}

\* the records out[m], out[m+1], ... come from lines at increasing positions
\* among those from k to the last line p has taken
RECURSIVE InOrder(_, _, _, _)
InOrder(p, out, m, k) ==
    IF m > Len(out) THEN TRUE
    ELSE LET from == {j \in k..i[p] : ComesFrom(p, out[m], config_lines[j])}
         IN  from # {} /\ InOrder(p, out, m + 1, SetMin(from) + 1)

\* C12: for every recognizer the records of the output collection stand in
\* the order of the lines they came from: the first record comes from some
\* line, the second from a later line, and so on.
C12_OrderPreserved == \A p \in Passes : InOrder(p, Output(p), 1, 1)

\* two blocks, the first closed by the second declaration
C12_Witness ==
    /\ pc["parse_interfaces"] = "done"
    /\ Len(config_lines) = 3
    /\ strip(config_lines[1]) = "interface Eth1"
    /\ Len(interfaces) = 2
    /\ \A m \in 1..2 : "Interface" \in DOMAIN interfaces[m]
    /\ interfaces[1]["Interface"] = "Eth1"
    /\ interfaces[2]["Interface"] = "Eth2"
    /\ interfaces[1]["Name"] = "in"

\* C13: a recognizer called twice on the same list returns the same
\* collection both times; each call starts with an empty collection, no
\* record in progress and no pending object name, and parse_acl_line starts
\* the optional clauses of every line with the cursor at token 5.
C13_SameTwice ==
    /\ \A p \in Passes :
          /\ Len(returned[p]) = 2 => returned[p][1] = returned[p][2]
          /\ pc[p] = "loop" /\ i[p] = 0 => Output(p) = <<>>
    /\ pc["parse_interfaces"] = "loop" /\ i["parse_interfaces"] = 0 =>
          current = EmptyDict
    /\ pc["parse_object_nat"] = "loop" /\ i["parse_object_nat"] = 0 =>
          current_object = None
    /\ pc["parse_acls"] = "source_zone" => idx = 5

\* the first call left an object name pending; the second returned the same
\* one record
C13_Witness ==
    /\ Len(config_lines) = 4
    /\ Len(returned["parse_object_nat"]) = 2
    /\ Len(returned["parse_object_nat"][1].value) = 1
    /\ returned["parse_object_nat"][2].value = nat_entries
    /\ Truthy(current_object)
    /\ StartsNat(config_lines[1])

\* everything a recognizer owns: its position, its accumulator, its output
PassState(p) ==
    CASE p = "parse_interfaces" ->
            <<pc[p], i[p], returned[p], interfaces, current, current_at>>
      [] p = "parse_routes" -> <<pc[p], i[p], returned[p], route_entries>>
      [] p = "parse_object_nat" ->
            <<pc[p], i[p], returned[p], nat_entries, current_object>>
      [] p = "parse_acls" ->
            <<pc[p], i[p], returned[p], parsed, tokens, idx, result>>

\* every recognizer has ended
Quiescent == \A p \in Passes : pc[p] \in {"done", "raised"}

\* C14: the four recognizers run as four processes, their steps interleaved
\* in any order, end with the four collections main gets from its four calls
\* in sequence; a step changes what one recognizer owns and nothing of the
\* others; and config_lines is never written.
C14_Independent ==
    /\ [](Quiescent => returned = main(config_lines))
    /\ [][/\ config_lines' = config_lines
          /\ \E p \in Passes : \A q \in Passes \ {p} : PassState(q)' = PassState(q)]_vars

\* the identifiers of the records of recs that a declaration started, in order
Declared(r) == "Interface" \in DOMAIN r
IdsOf(recs) ==
    LET started == SelectSeq(recs, Declared)
    IN  [m \in 1..Len(started) |-> started[m]["Interface"]]

\* the identifiers the declaration lines among the first n lines give, in order
DeclaresInterface(l) == startswith(strip(l), "interface ")
DeclaredIds(n) ==
    LET lines == SelectSeq(SubSeq(config_lines, 1, n), DeclaresInterface)
    IN  [m \in 1..Len(lines) |-> Words(lines[m])[2]]

\* C15: every interface declaration line leads to exactly one appended record
\* carrying its identifier.  While the loop runs, the declarations read so far
\* are, one for one and in order, the records appended plus the one in
\* progress; once parse_interfaces has ended, however it ended, they are the
\* records appended: none is missing and none is there twice.
C15_OncePerDeclaration ==
    LET p == "parse_interfaces"
    IN  /\ pc[p] = "loop" => IdsOf(Append(interfaces, current)) = DeclaredIds(i[p])
        /\ pc[p] \in {"done", "raised"} => IdsOf(interfaces) = DeclaredIds(i[p])

\* the position (1-based) of the first rule-id among the tokens w, 0 if none
FirstRuleId(w) ==
    LET at == {n \in 1..Len(w) : w[n] = "rule-id"}
    IN  IF at = {} THEN 0 ELSE SetMin(at)

\* C16 as stated: whenever rule-id occurs among the tokens of a line that
\* parse_acl_line parses (it begins with access-list as a token of its own and
\* contains advanced) and a token follows its first occurrence, the line's
\* record has that token as rule_id, whatever the walk did before.
C16_Original ==
    BetweenAclLines =>
        \A k \in 1..i["parse_acls"] :
            LET l == config_lines[k]
                w == Words(l)
                raw == strip(l)
                n == FirstRuleId(w)
            IN  w # <<>> /\ w[1] = "access-list" /\ n > 0 /\ n < Len(w)
                   /\ MarkedAclLine(l) =>
                    \A m \in RecordsWithRaw(raw) \cup RecordsWithRaw(raw \o ParseErrorSuffix) :
                        parsed[m]["rule_id"] = w[n + 1]

\* C16 (amended): the rule-id clause, whenever the walk reaches it and
\* wherever the cursor stands, takes the token that follows the first rule-id
\* among the tokens, and faults if none follows.  So a line with rule-id among
\* its tokens yields one record per occurrence of the line: rule_id is that
\* token if no index was out of range anywhere in the walk (raw is then the
\* trimmed line), and empty if one was, before the clause or in it (raw then
\* carries the suffix).
C16_RuleIdUnlessFault ==
    /\ [](BetweenAclLines =>
            \A k \in 1..i["parse_acls"] :
                LET l == config_lines[k]
                    w == Words(l)
                    raw == strip(l)
                    n == FirstRuleId(w)
                    clean == RecordsWithRaw(raw)
                    marked == RecordsWithRaw(raw \o ParseErrorSuffix)
                IN  w # <<>> /\ w[1] = "access-list" /\ n > 0 /\ MarkedAclLine(l) =>
                        /\ Cardinality(clean \cup marked) = Cardinality(ReadLike(l))
                        /\ \A m \in clean : n < Len(w) /\ parsed[m]["rule_id"] = w[n + 1]
                        /\ \A m \in marked : parsed[m]["rule_id"] = ""
                        /\ n = Len(w) => clean = {})
    /\ [][pc["parse_acls"] = "rule_id" =>
            LET n == FirstRuleId(tokens)
            IN  /\ n > 0 /\ n < Len(tokens) =>
                      /\ result'["rule_id"] = tokens[n + 1]
                      /\ result'["raw"] = result["raw"]
                /\ n > 0 /\ n = Len(tokens) =>
                      /\ result'["rule_id"] = ""
                      /\ result'["raw"] = result["raw"] \o ParseErrorSuffix
                /\ n = 0 => result' = result
                /\ parsed' = Append(parsed, result')]_vars

\* rule-id read as the value of the destination host, the cursor beyond it:
\* rule_id is still the token after it
C16_Witness ==
    /\ pc["parse_acls"] = "loop"
    /\ i["parse_acls"] = 1
    /\ Len(parsed) = 1
    /\ parsed[1]["destination_type"] = "host"
    /\ parsed[1]["destination_value"] = "rule-id"
    /\ parsed[1]["rule_id"] = "268"
    /\ idx = 11
    /\ ~HasSuffix(parsed[1]["raw"])

\* the fields the destination clauses write
DestinationKeys ==
    {"destination_zone", "destination_type", "destination_value", "destination_port"}

\* the walk stands after the source clauses and no token is left at the cursor
NoTokenLeft ==
    /\ pc["parse_acls"] \in {"destination_zone", "destination", "destination_port"}
    /\ idx = Len(tokens)

\* the destination clauses are behind, they recorded nothing and consumed
\* nothing: the token list ended right after the source clauses
EndedAfterSource ==
    /\ pc["parse_acls"] = "rule_id"
    /\ idx = Len(tokens)
    /\ \A k \in DestinationKeys : result[k] = ""

\* a destination clause met with no token left is skipped: nothing is
\* recorded, the cursor stays, no fault
SkippedWhenNoTokenLeft ==
    NoTokenLeft =>
        /\ result' = result
        /\ idx' = idx
        /\ parsed' = parsed
        /\ pc'["parse_acls"] \in {"destination", "destination_port", "rule_id"}

\* the destination endpoint clause met with a token at the cursor: type and
\* value for a type keyword (the value being the next token), else "any" with
\* that single token
EndpointWhenTokenLeft ==
    pc["parse_acls"] = "destination" /\ idx < Len(tokens) =>
        LET t == Tok(tokens, idx)
        IN  IF t \in EndpointTypes
            THEN /\ result'["destination_type"] = t
                 /\ idx + 1 < Len(tokens) =>
                       /\ result'["destination_value"] = Tok(tokens, idx + 1)
                       /\ idx' = idx + 2
                       /\ pc'["parse_acls"] = "destination_port"
            ELSE /\ result'["destination_type"] = "any"
                 /\ result'["destination_value"] = t
                 /\ idx' = idx + 1
                 /\ pc'["parse_acls"] = "destination_port"

\* the record of the line being walked is emitted with the destination fields
\* empty and raw the stripped line
EmittedBare ==
    /\ parsed' = Append(parsed, result')
    /\ \A k \in DestinationKeys : result'[k] = ""
    /\ result'["raw"] = strip(config_lines[i["parse_acls"]])

StartsCall(p) == pc[p] \in {"done", "raised"} /\ pc'[p] = "loop"

\* C18: once a record has been appended to a recognizer's output collection,
\* no later line of the pass changes any of its fields or removes it: within a
\* call every step leaves the records already in the collection as they are
\* and in place, and only adds at the end; in parse_interfaces a field line
\* after a finalized block therefore never changes the finalized record.
C18_AppendedRecordsStay ==
    [][\A p \in Passes :
          ~StartsCall(p) =>
              /\ Len(Output(p)') >= Len(Output(p))
              /\ SubSeq(Output(p)', 1, Len(Output(p))) = Output(p)]_vars

\* a block closed by its terminator, then a field line: the name went to a
\* new record in progress, the finalized record has none
C18_Witness ==
    /\ Len(config_lines) >= 3
    /\ strip(config_lines[1]) = "interface Eth1"
    /\ strip(config_lines[2]) = "!"
    /\ strip(config_lines[3]) = "nameif in"
    /\ i["parse_interfaces"] = 3
    /\ interfaces = <<NewInterface("Eth1")>>
    /\ current = SetKey(EmptyDict, "Name", "in")

\* Line l matches the static pattern: "nat", one space, a parenthesised pair
\* of non-empty names with a comma between, " static " and a target, whatever
\* follows.
MatchesStatic(l) ==
    LET w == Words(l)
    IN  /\ Len(w) >= 4
        /\ startswith(strip(l), "nat " \o w[2] \o " static " \o w[4])
        /\ Char(w[2], 1) = "(" /\ Char(w[2], Len(w[2])) = ")"
        /\ \E c \in 3..(Len(w[2]) - 2) : Char(w[2], c) = ","

\* C19: a line beginning with "nat (" that is met while an object name is
\* pending clears the pending name, whether or not it matches the static
\* pattern, and emits nothing when it does not match; so a static NAT line
\* that follows a non-static NAT line, with no object declaration in between,
\* emits nothing.
C19_NatLineConsumesObject ==
    [][Takes("parse_object_nat") =>
        LET line == NextLine("parse_object_nat")
        IN  /\ StartsNat(line) /\ Truthy(current_object) =>
                 /\ current_object' = None
                 /\ ~MatchesStatic(line) => nat_entries' = nat_entries
            /\ MatchesStatic(line) =>
                 \A a \in 1..i["parse_object_nat"] :
                     (/\ StartsNat(config_lines[a])
                      /\ ~MatchesStatic(config_lines[a])
                      /\ NoneBetween(a, i["parse_object_nat"] + 1, IsObjectDecl))
                     => nat_entries' = nat_entries]_vars

\* a declaration, a dynamic NAT line that took the name, then a static line:
\* no record
C19_Witness ==
    /\ i["parse_object_nat"] = 3
    /\ DeclNaming(config_lines[1], "WEBSRV")
    /\ StartsNat(config_lines[2])
    /\ ~MatchesStatic(config_lines[2])
    /\ MatchesStatic(config_lines[3])
    /\ nat_entries = <<>>
    /\ current_object = None

=============================================================================
